---- MODULE Spec2Model ----
(***************************************************************************)
(* Curve intersection and coordinate solving of src/bez.rs.                *)
(*                                                                         *)
(* Numbers.  A coordinate is an f64.  The model keeps the f64 values of    *)
(* one binade: the integer multiples of ULP.  Every arithmetic result that *)
(* the code stores in a coordinate is rounded to the nearest such value,   *)
(* ties to the even multiple, as IEEE 754 does.  Curves whose coordinates  *)
(* are multiples of a large power of two subdivide without rounding (the   *)
(* everyday case); curves a few ULP wide show what rounding does.          *)
(* Parameters t are exact rationals [n, d] with d > 0.  Coordinate solving *)
(* (ParamCurveSolve) is modelled in exact rationals throughout.            *)
(***************************************************************************)
EXTENDS Integers, Sequences, FiniteSets, TLC

(***************************************************************************)
(* Arithmetic                                                              *)
(***************************************************************************)

\* Spacing of the f64 values of the modelled binade.
ULP == 2

Abs(x) == IF x < 0 THEN -x ELSE x

Min(x, y) == IF x <= y THEN x ELSE y

Max(x, y) == IF x >= y THEN x ELSE y

RECURSIVE GCD(_, _)
GCD(x, y) == IF y = 0 THEN Abs(x) ELSE GCD(y, x % Abs(y))

\* The rational n/d in lowest terms with a positive denominator.
Rat(n, d) ==
    LET g == GCD(n, d)
        s == IF d < 0 THEN -1 ELSE 1
    IN  [n |-> s * (n \div g), d |-> s * (d \div g)]

RatLess(s, t) == s.n * t.d < t.n * s.d

RatAdd(s, t) == Rat(s.n * t.d + t.n * s.d, s.d * t.d)

RatMul(s, t) ==
    LET g == GCD(s.n, t.d)
        h == GCD(t.n, s.d)
    IN  Rat((s.n \div g) * (t.n \div h), (s.d \div h) * (t.d \div g))

RatInt(k) == [n |-> k, d |-> 1]

RatLeq(s, t) == s.n * t.d <= t.n * s.d

\* n/d (d > 0) rounded to the nearest multiple of ULP, ties to even.
Round(n, d) ==
    LET m == d * ULP
        k == n \div m
        r == n - k * m
    IN  IF 2 * r < m THEN k * ULP
        ELSE IF 2 * r > m THEN (k + 1) * ULP
        ELSE IF k % 2 = 0 THEN k * ULP ELSE (k + 1) * ULP

RECURSIVE IsqrtIn(_, _, _)
IsqrtIn(n, lo, hi) ==
    IF lo >= hi THEN lo
    ELSE LET mid == (lo + hi + 1) \div 2
         IN  IF mid * mid <= n THEN IsqrtIn(n, mid, hi)
             ELSE IsqrtIn(n, lo, mid - 1)

\* Floor of the square root of n >= 0.
Isqrt(n) == IsqrtIn(n, 0, Min(n, 46340))

(***************************************************************************)
(* Points and rectangles                                                   *)
(***************************************************************************)

Pt(x, y) == [x |-> x, y |-> y]

from_points(p, q) ==
    [x0 |-> Min(p.x, q.x), y0 |-> Min(p.y, q.y),
     x1 |-> Max(p.x, q.x), y1 |-> Max(p.y, q.y)]

union_pt(r, p) ==
    [x0 |-> Min(r.x0, p.x), y0 |-> Min(r.y0, p.y),
     x1 |-> Max(r.x1, p.x), y1 |-> Max(r.y1, p.y)]

width(r) == r.x1 - r.x0

height(r) == r.y1 - r.y0

center(r) == Pt(Round(r.x0 + r.x1, 2), Round(r.y0 + r.y1, 2))

\* Point::approx_eq: both coordinates differ by less than the tolerance.
approx_eq(p, q, tolerance) ==
    Abs(p.x - q.x) < tolerance /\ Abs(p.y - q.y) < tolerance

(***************************************************************************)
(* Path segments: Line, QuadBez, CubicBez                                  *)
(***************************************************************************)

Line(p0, p1) == [kind |-> "Line", p |-> <<p0, p1>>]

Quad(p0, p1, p2) == [kind |-> "Quad", p |-> <<p0, p1, p2>>]

Cubic(p0, p1, p2, p3) == [kind |-> "Cubic", p |-> <<p0, p1, p2, p3>>]

\* One coordinate of a segment at t = n/d, from its control values cs.
eval_v(cs, n, d) ==
    LET m == d - n
    IN  CASE Len(cs) = 2 -> Round(m * cs[1] + n * cs[2], d)
          [] Len(cs) = 3 ->
                Round(m * m * cs[1] + 2 * n * m * cs[2] + n * n * cs[3], d * d)
          [] Len(cs) = 4 ->
                Round(m * m * m * cs[1] + 3 * n * m * m * cs[2]
                      + 3 * n * n * m * cs[3] + n * n * n * cs[4], d * d * d)

xs(seg) == [i \in 1..Len(seg.p) |-> seg.p[i].x]

ys(seg) == [i \in 1..Len(seg.p) |-> seg.p[i].y]

seg_eval(seg, t) == Pt(eval_v(xs(seg), t.n, t.d), eval_v(ys(seg), t.n, t.d))

seg_start(seg) == seg.p[1]

seg_end(seg) == seg.p[Len(seg.p)]

\* Midpoint of two points, and the De Casteljau points of a split at 1/2.
mid2(p, q) == Pt(Round(p.x + q.x, 2), Round(p.y + q.y, 2))

mid3(p, q, r) == Pt(Round(p.x + 2 * q.x + r.x, 4), Round(p.y + 2 * q.y + r.y, 4))

seg_subdivide(seg) ==
    LET p  == seg.p
        pm == seg_eval(seg, [n |-> 1, d |-> 2])
    IN  CASE seg.kind = "Line" -> <<Line(p[1], pm), Line(pm, p[2])>>
          [] seg.kind = "Quad" ->
                <<Quad(p[1], mid2(p[1], p[2]), pm),
                  Quad(pm, mid2(p[2], p[3]), p[3])>>
          [] seg.kind = "Cubic" ->
                <<Cubic(p[1], mid2(p[1], p[2]), mid3(p[1], p[2], p[3]), pm),
                  Cubic(pm, mid3(p[2], p[3], p[4]), mid2(p[3], p[4]), p[4])>>

\* One coordinate of the derivative of a segment at t, over its degree.
deriv_v(cs, t) ==
    LET u == RatAdd(RatInt(1), RatMul(RatInt(-1), t))
    IN  CASE Len(cs) = 3 ->
                RatAdd(RatMul(u, RatInt(cs[2] - cs[1])),
                       RatMul(t, RatInt(cs[3] - cs[2])))
          [] Len(cs) = 4 ->
                RatAdd(RatMul(RatMul(u, u), RatInt(cs[2] - cs[1])),
                       RatAdd(RatMul(RatMul(RatInt(2), RatMul(t, u)),
                                     RatInt(cs[3] - cs[2])),
                              RatMul(RatMul(t, t), RatInt(cs[4] - cs[3]))))

\* The control values of the part of a segment between t0 and t1.
subsegment_v(cs, t0, t1) ==
    LET v0 == eval_v(cs, t0.n, t0.d)
        v1 == eval_v(cs, t1.n, t1.d)
        dt == RatAdd(t1, RatMul(RatInt(-1), t0))
        h0 == RatMul(dt, deriv_v(cs, t0))
        h1 == RatMul(dt, deriv_v(cs, t1))
    IN  CASE Len(cs) = 2 -> <<v0, v1>>
          [] Len(cs) = 3 -> <<v0, v0 + Round(h0.n, h0.d), v1>>
          [] Len(cs) = 4 ->
                <<v0, v0 + Round(h0.n, h0.d), v1 - Round(h1.n, h1.d), v1>>

seg_subsegment(seg, t0, t1) ==
    LET vx == subsegment_v(xs(seg), t0, t1)
        vy == subsegment_v(ys(seg), t0, t1)
    IN  [kind |-> seg.kind, p |-> [i \in 1..Len(seg.p) |-> Pt(vx[i], vy[i])]]

(***************************************************************************)
(* roots: closed-form solvers of c0 + c1 t + c2 t^2 + c3 t^3 = 0.          *)
(* Roots are returned in ascending order, a root of a repeated factor once *)
(* per factor.  A root is exact when it is                                 *)
(* rational; an irrational root of a quadratic is given to the precision   *)
(* of the integer square root.                                             *)
(***************************************************************************)

Divisors(k) == {i \in 1..Abs(k) : Abs(k) % i = 0}

RECURSIVE InsertRat(_, _)
InsertRat(s, t) ==
    IF s = <<>> THEN <<t>>
    ELSE IF RatLeq(t, Head(s)) THEN <<t>> \o s
    ELSE <<Head(s)>> \o InsertRat(Tail(s), t)

RECURSIVE SortRat(_)
SortRat(s) == IF s = <<>> THEN <<>> ELSE InsertRat(SortRat(Tail(s)), Head(s))

solve_linear(c0, c1) == IF c1 = 0 THEN <<>> ELSE <<Rat(-c0, c1)>>

solve_quadratic(c0, c1, c2) ==
    IF c2 = 0 THEN solve_linear(c0, c1)
    ELSE LET g    == GCD(GCD(c0, c1), c2)
             k0   == c0 \div g
             k1   == c1 \div g
             k2   == c2 \div g
             disc == k1 * k1 - 4 * k2 * k0
         IN  IF disc < 0 THEN <<>>
             ELSE IF disc = 0 THEN <<Rat(-k1, 2 * k2), Rat(-k1, 2 * k2)>>
             ELSE SortRat(<<Rat(-k1 - Isqrt(disc), 2 * k2),
                            Rat(-k1 + Isqrt(disc), 2 * k2)>>)

\* Whether n/d in lowest terms, d dividing c3, is a root of the cubic: d t - n
\* divides it over the integers, and no root is larger than Cauchy's bound.
IsRoot(c0, c1, c2, c3, n, d) ==
    /\ Abs(n) * Abs(c3) <= d * (Abs(c3) + Max(Abs(c0), Max(Abs(c1), Abs(c2))))
    /\ LET A == c3 \div d
       IN  /\ (c2 + A * n) % d = 0
           /\ LET B == (c2 + A * n) \div d
              IN  /\ (c1 + B * n) % d = 0
                  /\ LET C == (c1 + B * n) \div d
                     IN  c0 + C * n = 0

\* The rational roots n/d of a cubic with c3 # 0 and coprime coefficients:
\* d divides c3 and n divides c0.
RationalRoots(c0, c1, c2, c3) ==
    IF c0 = 0 THEN {Rat(0, 1)}
    ELSE {r \in {Rat(s * n, d) : s \in {-1, 1}, n \in Divisors(c0), d \in Divisors(c3)} :
            IsRoot(c0, c1, c2, c3, r.n, r.d)}

\* A cubic with a rational root r = n/d factors as (d t - n)(A t^2 + B t + C).
Deflate(c0, c1, c2, c3, r) ==
    LET A == c3 \div r.d
        B == (c2 + A * r.n) \div r.d
        C == (c1 + B * r.n) \div r.d
    IN  <<C, B, A>>

solve_cubic(c0, c1, c2, c3) ==
    IF c3 = 0 THEN solve_quadratic(c0, c1, c2)
    ELSE LET g  == GCD(GCD(c0, c1), GCD(c2, c3))
             k0 == c0 \div g
             k1 == c1 \div g
             k2 == c2 \div g
             k3 == c3 \div g
             rs == RationalRoots(k0, k1, k2, k3)
         IN  IF rs = {} THEN <<>>
             ELSE LET r == CHOOSE q \in rs : \A o \in rs : RatLeq(q, o)
                      q == Deflate(k0, k1, k2, k3, r)
                  IN  SortRat(<<r>> \o solve_quadratic(q[1], q[2], q[3]))

\* Whether the model's solver is exact on the polynomial: every real root is
\* rational.
ExactQuadratic(c0, c1, c2) ==
    \/ c2 = 0
    \/ LET g    == GCD(GCD(c0, c1), c2)
           k0   == c0 \div g
           k1   == c1 \div g
           k2   == c2 \div g
           disc == k1 * k1 - 4 * k2 * k0
       IN  disc < 0 \/ Isqrt(disc) * Isqrt(disc) = disc

ExactCubic(c0, c1, c2, c3) ==
    IF c3 = 0 THEN ExactQuadratic(c0, c1, c2)
    ELSE LET g  == GCD(GCD(c0, c1), GCD(c2, c3))
             k0 == c0 \div g
             k1 == c1 \div g
             k2 == c2 \div g
             k3 == c3 \div g
             rs == RationalRoots(k0, k1, k2, k3)
         IN  /\ rs # {}
             /\ LET r == CHOOSE q \in rs : \A o \in rs : RatLeq(q, o)
                    q == Deflate(k0, k1, k2, k3, r)
                IN  ExactQuadratic(q[1], q[2], q[3])

(***************************************************************************)
(* ParamCurveExtrema of the plain segments                                 *)
(***************************************************************************)

\* Parameters of the interior extrema of one coordinate.
extrema_v(cs) ==
    CASE Len(cs) = 2 -> <<>>
      [] Len(cs) = 3 ->
            solve_linear(cs[2] - cs[1], cs[1] - 2 * cs[2] + cs[3])
      [] Len(cs) = 4 ->
            solve_quadratic(cs[2] - cs[1],
                            2 * (cs[1] - 2 * cs[2] + cs[3]),
                            cs[4] - 3 * cs[3] + 3 * cs[2] - cs[1])

seg_extrema(seg) ==
    LET all == extrema_v(xs(seg)) \o extrema_v(ys(seg))
    IN  SortRat(SelectSeq(all, LAMBDA t : t.n > 0 /\ t.n < t.d))

RECURSIVE UnionEval(_, _, _)
UnionEval(seg, ts, r) ==
    IF ts = <<>> THEN r
    ELSE UnionEval(seg, Tail(ts), union_pt(r, seg_eval(seg, Head(ts))))

\* The smallest rectangle containing the segment: its end points and its
\* interior extrema.
seg_bounding_box(seg) ==
    UnionEval(seg, seg_extrema(seg), from_points(seg_start(seg), seg_end(seg)))

(***************************************************************************)
(* Monotone<C>                                                             *)
(***************************************************************************)

Monotone(seg) == [kind |-> "Monotone", seg |-> seg]

IsMonotone(c) == c.kind = "Monotone"

\* Deref: the path segment of a curve, wrapped or not.
deref(c) == IF IsMonotone(c) THEN c.seg ELSE c

eval(c, t) == seg_eval(deref(c), t)

start(c) == seg_start(deref(c))

end(c) == seg_end(deref(c))

subsegment(c, t0, t1) ==
    IF IsMonotone(c) THEN Monotone(seg_subsegment(c.seg, t0, t1))
    ELSE seg_subsegment(c, t0, t1)

subdivide(c) ==
    IF IsMonotone(c)
    THEN LET ab == seg_subdivide(c.seg) IN <<Monotone(ab[1]), Monotone(ab[2])>>
    ELSE seg_subdivide(c)

extrema(c) == IF IsMonotone(c) THEN <<>> ELSE seg_extrema(c)

extrema_ranges(c) ==
    IF IsMonotone(c) THEN <<[lo |-> Rat(0, 1), hi |-> Rat(1, 1)]>>
    ELSE LET ts == <<Rat(0, 1)>> \o seg_extrema(c) \o <<Rat(1, 1)>>
         IN  [i \in 1..(Len(ts) - 1) |-> [lo |-> ts[i], hi |-> ts[i + 1]]]

\* A wrapper that forwards bounding_box to the wrapped segment.
bounding_box_forwarded(c) == seg_bounding_box(deref(c))

bounding_box(c) ==
    IF IsMonotone(c) THEN from_points(start(c), end(c))
    ELSE seg_bounding_box(c)

\* An overlap test that lets touching boxes through.
bboxes_overlap_touching(ba, bb) ==
    ba.x1 >= bb.x0 /\ bb.x1 >= ba.x0 /\ ba.y1 >= bb.y0 /\ bb.y1 >= ba.y0

bboxes_overlap(ba, bb) ==
    ba.x1 > bb.x0 /\ bb.x1 > ba.x0 /\ ba.y1 > bb.y0 /\ bb.y1 > ba.y0

(***************************************************************************)
(* PathSeg::intersect_line: the hits of a segment with a line, each with   *)
(* the parameter on the line (line_t) and on the segment (segment_t).      *)
(***************************************************************************)

InUnit(t) == t.n >= 0 /\ t.n <= t.d

\* Power-basis coefficients <<k0, k1, k2, k3>> of one coordinate.
coefs(cs) ==
    CASE Len(cs) = 2 -> <<cs[1], cs[2] - cs[1], 0, 0>>
      [] Len(cs) = 3 -> <<cs[1], 2 * (cs[2] - cs[1]), cs[1] - 2 * cs[2] + cs[3], 0>>
      [] Len(cs) = 4 -> <<cs[1], 3 * (cs[2] - cs[1]), 3 * (cs[1] - 2 * cs[2] + cs[3]),
                          cs[4] - 3 * cs[3] + 3 * cs[2] - cs[1]>>

\* The value k0 + k1 t + k2 t^2 + k3 t^3 at the rational t.
poly_at(k, t) ==
    RatAdd(RatInt(k[1]),
           RatMul(t, RatAdd(RatInt(k[2]),
                            RatMul(t, RatAdd(RatInt(k[3]),
                                             RatMul(t, RatInt(k[4])))))))

\* The parameter on the line of the segment's point at t.
line_t_of(seg, line, t) ==
    LET p0 == line.p[1]
        dx == line.p[2].x - p0.x
        dy == line.p[2].y - p0.y
        x  == RatAdd(poly_at(coefs(xs(seg)), t), RatInt(-p0.x))
        y  == RatAdd(poly_at(coefs(ys(seg)), t), RatInt(-p0.y))
    IN  RatMul(RatAdd(RatMul(x, RatInt(dx)), RatMul(y, RatInt(dy))),
               [n |-> 1, d |-> dx * dx + dy * dy])

intersect_line(seg, line) ==
    LET p0 == line.p[1]
        dx == line.p[2].x - p0.x
        dy == line.p[2].y - p0.y
        kx == coefs(xs(seg))
        ky == coefs(ys(seg))
        c0 == dy * (kx[1] - p0.x) - dx * (ky[1] - p0.y)
        c1 == dy * kx[2] - dx * ky[2]
        c2 == dy * kx[3] - dx * ky[3]
        c3 == dy * kx[4] - dx * ky[4]
        ts == CASE seg.kind = "Line" -> solve_linear(c0, c1)
                [] seg.kind = "Quad" -> solve_quadratic(c0, c1, c2)
                [] seg.kind = "Cubic" -> solve_cubic(c0, c1, c2, c3)
        on == SelectSeq(ts, LAMBDA t : InUnit(t) /\ InUnit(line_t_of(seg, line, t)))
    IN  IF dx = 0 /\ dy = 0 THEN <<>>
        ELSE [i \in 1..Len(on) |->
                [line_t |-> line_t_of(seg, line, on[i]), segment_t |-> on[i]]]

(***************************************************************************)
(* ArrayVec<A>: a sequence of at most `capacity` items.                    *)
(***************************************************************************)

\* A container that never reports itself full.
is_full_never(vec, capacity) == FALSE

is_full(vec, capacity) == Len(vec) >= capacity

\* collect() into an ArrayVec takes the items that fit and leaves the rest.
collect(items, capacity) == SubSeq(items, 1, Min(Len(items), capacity))

(***************************************************************************)
(* find_intersections_bbox                                                 *)
(***************************************************************************)

\* An extend without the duplicate test.
RECURSIVE extend_no_dedup(_, _, _, _)
extend_no_dedup(result, values, double, capacity) ==
    IF values = <<>> THEN result
    ELSE extend_no_dedup(IF Len(result) < capacity
                         THEN Append(result, Head(values)) ELSE result,
                         Tail(values), double, capacity)

\* The closure `extend` applied to one sub-result.
RECURSIVE extend(_, _, _, _)
extend(result, values, double, capacity) ==
    IF values = <<>> THEN result
    ELSE LET point == Head(values)
             dup   == \E i \in 1..Len(result) : approx_eq(result[i], point, double)
         IN  extend(IF ~is_full(result, capacity) /\ ~dup
                    THEN Append(result, point) ELSE result,
                    Tail(values), double, capacity)

\* Bounds of the model.
MaxDepth == 6
MaxCap == 3

\* The inputs: path segments on the grid.
L1 == Line(Pt(0, 0), Pt(32, 32))
L2 == Line(Pt(0, 24), Pt(32, 8))
L3 == Line(Pt(0, 20), Pt(32, 4))
L4 == Line(Pt(40, 0), Pt(64, 32))
L5 == Line(Pt(32, 0), Pt(64, 32))
L7 == Line(Pt(4, -4), Pt(34, 14))
L8 == Line(Pt(12, 20), Pt(32, 0))
L9 == Line(Pt(12, 32), Pt(32, 12))
Tiny == Line(Pt(0, 0), Pt(2, 2))
Q1 == Quad(Pt(0, 0), Pt(16, 32), Pt(32, 0))
Q2 == Quad(Pt(0, 0), Pt(32, 0), Pt(32, 32))
Q3 == Quad(Pt(0, 0), Pt(16, 48), Pt(32, 16))
Q5 == Quad(Pt(0, 0), Pt(16, 64), Pt(32, 32))
C1 == Cubic(Pt(0, 0), Pt(16, 0), Pt(32, 16), Pt(32, 32))
C2 == Cubic(Pt(0, 32), Pt(0, 16), Pt(16, 0), Pt(32, 0))

Pairs ==
    {<<L1, L1>>, <<L1, L2>>, <<L1, L3>>, <<L1, L4>>, <<L1, L5>>,
     <<Tiny, Tiny>>, <<Tiny, L1>>, <<L1, Tiny>>, <<L3, Q1>>, <<Q1, Q1>>, <<Q2, L3>>,
     <<Q3, Q3>>, <<Q3, L3>>, <<C1, C1>>, <<C1, C2>>, <<C2, Q2>>}

\* The pairs handed to Monotone::intersect, each operand wrapped.
IntersectPairs ==
    {<<L1, L1>>, <<L1, L3>>, <<L1, L4>>, <<L1, L5>>, <<L3, Q1>>, <<Q2, L3>>,
     <<Q3, L9>>, <<L7, Q2>>, <<Q2, L7>>, <<C1, L8>>, <<L8, C1>>,
     <<C1, C1>>, <<C1, C2>>, <<Q3, Q3>>, <<Q5, Q5>>, <<C2, Q2>>,
     <<Tiny, Tiny>>}

Accuracies == {1, 4, 8}

VARIABLES
    a, b,        \* the two curves of the top-level call
    accuracy,    \* its accuracy
    capacity,    \* the capacity of the output type A
    entry,       \* the function called: "find_intersections_bbox", "intersect"
    via,         \* the path Monotone::intersect took
    status,      \* "intersect", "call", "return", "done", "panic", "overflow"
    arg,         \* the curves of the call being entered (status "call")
    stack,       \* the activations that have subdivided and await sub-results
    ret,         \* the value just returned (status "return", "done")
    last,        \* what the call that returned last did
    calls,       \* how many calls of find_intersections_bbox were entered
    tasks,       \* fork-join evaluation: the calls in flight, by tree path
    curve,       \* coordinate solving: the curve solved on
    value,       \* the coordinate value solved for
    method,      \* the method of ParamCurveSolve called
    phase,       \* "ready", "done"
    out,         \* what the method returned
    pseg,        \* transforming: the path segment (or Monotone) transformed
    xform,       \* the Affine or TranslateScale applied
    image,       \* what the transformation returned
    frames,      \* frames: the Frame values held, by name
    heap,        \* the Arc allocations: element vectors by address
    op           \* the Frame method that ran last

inputVars == <<a, b, accuracy, capacity>>

searchVars == <<entry, via, status, arg, stack, ret, last, calls>>

forkVars == <<tasks>>

solveVars == <<curve, value, method, phase, out>>

pathVars == <<pseg, xform, image>>

frameVars == <<frames, heap, op>>

vars == <<inputVars, searchVars, forkVars, solveVars, pathVars, frameVars>>

\* The record of a call that returned: what it did (how), its curves and
\* their boxes, the sub-results it received in order, and what it returned.
Returned(how, x, y, subs, result) ==
    [how |-> how, a |-> x, b |-> y,
     ba |-> bounding_box(x), bb |-> bounding_box(y),
     subs |-> subs, result |-> result]

NoCall == [how |-> "none", a |-> <<>>, b |-> <<>>, ba |-> <<>>, bb |-> <<>>,
           subs |-> <<>>, result |-> <<>>]

\* The candidate points of an activation: its sub-results, concatenated.
RECURSIVE Cands(_)
Cands(subs) ==
    IF subs = <<>> THEN <<>> ELSE subs[1].result \o Cands(Tail(subs))

\* The sub-calls in the order aa, ba, ab, bb.
Child_ba_first(f, k) ==
    CASE k = 1 -> <<f.a1, f.b1>>
      [] k = 2 -> <<f.a2, f.b1>>
      [] k = 3 -> <<f.a1, f.b2>>
      [] k = 4 -> <<f.a2, f.b2>>

\* The sub-curves of the k-th recursive call of an activation.
Child(f, k) ==
    CASE k = 1 -> <<f.a1, f.b1>>
      [] k = 2 -> <<f.a1, f.b2>>
      [] k = 3 -> <<f.a2, f.b1>>
      [] k = 4 -> <<f.a2, f.b2>>

\* Nothing is evaluated by fork-join, nothing is solved.
NoFork == tasks = <<>>

NoSolve ==
    /\ curve = <<>>
    /\ value = <<>>
    /\ method = "none"
    /\ phase = "none"
    /\ out = <<>>

NoPath ==
    /\ pseg = <<>>
    /\ xform = <<>>
    /\ image = <<>>

NoFrame ==
    /\ frames = <<>>
    /\ heap = <<>>
    /\ op = <<>>

Init ==
    /\ entry \in {"find_intersections_bbox", "intersect"}
    /\ IF entry = "intersect"
       THEN /\ \E ab \in IntersectPairs :
                  a = Monotone(ab[1]) /\ b = Monotone(ab[2])
            /\ status = "intersect"
            /\ calls = 0
       ELSE /\ \E ab \in Pairs, m \in BOOLEAN :
                  /\ a = IF m THEN Monotone(ab[1]) ELSE ab[1]
                  /\ b = IF m THEN Monotone(ab[2]) ELSE ab[2]
            /\ status = "call"
            /\ calls = 1
    /\ accuracy \in Accuracies
    /\ capacity \in 0..MaxCap
    /\ via = "none"
    /\ arg = <<a, b>>
    /\ stack = <<>>
    /\ ret = <<>>
    /\ last = NoCall
    /\ NoFork
    /\ NoSolve
    /\ NoPath
    /\ NoFrame

(***************************************************************************)
(* Monotone::intersect                                                     *)
(***************************************************************************)

\* Lines 31-36: the match arm taken when an operand is a line.  The pattern
\* (seg, Line(line)) is tried first, then (Line(line), seg).
line_arm(self, other) ==
    IF other.seg.kind = "Line" THEN [seg |-> self.seg, line |-> other.seg]
    ELSE [seg |-> other.seg, line |-> self.seg]

\* Lines 33-35: the hits mapped to points of the line.
line_points(self, other) ==
    LET m    == line_arm(self, other)
        hits == intersect_line(m.seg, m.line)
    IN  [i \in 1..Len(hits) |-> seg_eval(m.line, hits[i].line_t)]

\* A match that only looks for a line in `other`.
has_line_other_only(self, other) == other.seg.kind = "Line"

has_line(self, other) == self.seg.kind = "Line" \/ other.seg.kind = "Line"

\* Lines 27-29.
IntersectReject ==
    /\ status = "intersect"
    /\ ~bboxes_overlap(bounding_box(a), bounding_box(b))
    /\ ret' = <<>>
    /\ via' = "reject"
    /\ status' = "done"
    /\ UNCHANGED <<a, b, accuracy, capacity, entry, arg, stack, last, calls>>
    /\ UNCHANGED <<forkVars, solveVars, pathVars, frameVars>>

\* Lines 32-37.
IntersectLine ==
    /\ status = "intersect"
    /\ bboxes_overlap(bounding_box(a), bounding_box(b))
    /\ has_line(a, b)
    /\ ret' = collect(line_points(a, b), capacity)
    /\ via' = "line"
    /\ status' = "done"
    /\ UNCHANGED <<a, b, accuracy, capacity, entry, arg, stack, last, calls>>
    /\ UNCHANGED <<forkVars, solveVars, pathVars, frameVars>>

\* Line 39.
IntersectFallback ==
    /\ status = "intersect"
    /\ bboxes_overlap(bounding_box(a), bounding_box(b))
    /\ ~has_line(a, b)
    /\ via' = "bbox"
    /\ status' = "call"
    /\ calls' = 1
    /\ UNCHANGED <<a, b, accuracy, capacity, entry, arg, stack, ret, last>>
    /\ UNCHANGED <<forkVars, solveVars, pathVars, frameVars>>

(***************************************************************************)
(* find_intersections_bbox, one step per activation                        *)
(***************************************************************************)

\* Lines 126-128: the bounding boxes do not overlap.
Reject ==
    /\ status = "call"
    /\ ~bboxes_overlap(bounding_box(arg[1]), bounding_box(arg[2]))
    /\ ret' = <<>>
    /\ status' = "return"
    /\ last' = Returned("reject", arg[1], arg[2], <<>>, <<>>)
    /\ UNCHANGED <<a, b, accuracy, capacity, entry, via, arg, stack, calls>>
    /\ UNCHANGED <<forkVars, solveVars, pathVars, frameVars>>

\* The first base case reporting the center of the box of b.
BaseA_center_of_b ==
    LET ba == bounding_box(arg[1])
        bb == bounding_box(arg[2])
    IN  /\ status = "call"
        /\ bboxes_overlap(ba, bb)
        /\ width(ba) < accuracy /\ height(ba) < accuracy
        /\ IF is_full(<<>>, capacity)
           THEN /\ status' = "panic"
                /\ UNCHANGED <<ret, last>>
           ELSE /\ status' = "return"
                /\ ret' = <<center(bb)>>
                /\ last' = Returned("base_a", arg[1], arg[2], <<>>, <<center(bb)>>)
        /\ UNCHANGED <<a, b, accuracy, capacity, entry, via, arg, stack, calls>>
    /\ UNCHANGED <<forkVars, solveVars, pathVars, frameVars>>

\* Lines 133-136: curve a is smaller than the accuracy.  push on a full
\* vector panics.
BaseA ==
    LET ba == bounding_box(arg[1])
        bb == bounding_box(arg[2])
    IN  /\ status = "call"
        /\ bboxes_overlap(ba, bb)
        /\ width(ba) < accuracy /\ height(ba) < accuracy
        /\ IF is_full(<<>>, capacity)
           THEN /\ status' = "panic"
                /\ UNCHANGED <<ret, last>>
           ELSE /\ status' = "return"
                /\ ret' = <<center(ba)>>
                /\ last' = Returned("base_a", arg[1], arg[2], <<>>, <<center(ba)>>)
        /\ UNCHANGED <<a, b, accuracy, capacity, entry, via, arg, stack, calls>>
    /\ UNCHANGED <<forkVars, solveVars, pathVars, frameVars>>

\* The second base case reporting the center of the box of a.
BaseB_center_of_a ==
    LET ba == bounding_box(arg[1])
        bb == bounding_box(arg[2])
    IN  /\ status = "call"
        /\ bboxes_overlap(ba, bb)
        /\ ~(width(ba) < accuracy /\ height(ba) < accuracy)
        /\ width(bb) < accuracy /\ height(bb) < accuracy
        /\ IF is_full(<<>>, capacity)
           THEN /\ status' = "panic"
                /\ UNCHANGED <<ret, last>>
           ELSE /\ status' = "return"
                /\ ret' = <<center(ba)>>
                /\ last' = Returned("base_b", arg[1], arg[2], <<>>, <<center(ba)>>)
        /\ UNCHANGED <<a, b, accuracy, capacity, entry, via, arg, stack, calls>>
    /\ UNCHANGED <<forkVars, solveVars, pathVars, frameVars>>

\* Lines 138-141: curve b is smaller than the accuracy.
BaseB ==
    LET ba == bounding_box(arg[1])
        bb == bounding_box(arg[2])
    IN  /\ status = "call"
        /\ bboxes_overlap(ba, bb)
        /\ ~(width(ba) < accuracy /\ height(ba) < accuracy)
        /\ width(bb) < accuracy /\ height(bb) < accuracy
        /\ IF is_full(<<>>, capacity)
           THEN /\ status' = "panic"
                /\ UNCHANGED <<ret, last>>
           ELSE /\ status' = "return"
                /\ ret' = <<center(bb)>>
                /\ last' = Returned("base_b", arg[1], arg[2], <<>>, <<center(bb)>>)
        /\ UNCHANGED <<a, b, accuracy, capacity, entry, via, arg, stack, calls>>
    /\ UNCHANGED <<forkVars, solveVars, pathVars, frameVars>>

\* Whether a call with these curves goes on to subdivide (lines 143-146).
Subdivides(x, y) ==
    LET ba == bounding_box(x)
        bb == bounding_box(y)
    IN  /\ bboxes_overlap(ba, bb)
        /\ ~(width(ba) < accuracy /\ height(ba) < accuracy)
        /\ ~(width(bb) < accuracy /\ height(bb) < accuracy)

\* Lines 145-160: subdivide both curves and enter the first sub-call.
Subdivide ==
    /\ status = "call"
    /\ Subdivides(arg[1], arg[2])
    /\ Len(stack) < MaxDepth
    /\ LET sa == subdivide(arg[1])
           sb == subdivide(arg[2])
           f  == [a |-> arg[1], b |-> arg[2],
                  ba |-> bounding_box(arg[1]), bb |-> bounding_box(arg[2]),
                  a1 |-> sa[1], a2 |-> sa[2], b1 |-> sb[1], b2 |-> sb[2],
                  next |-> 1, result |-> <<>>, subs |-> <<>>]
       IN  /\ stack' = Append(stack, f)
           /\ arg' = Child(f, 1)
    /\ calls' = calls + 1
    /\ UNCHANGED <<a, b, accuracy, capacity, entry, via, status, ret, last>>
    /\ UNCHANGED <<forkVars, solveVars, pathVars, frameVars>>

\* The recursion has no depth guard: past the depth the machine stack holds,
\* the process dies.
StackOverflow ==
    /\ status = "call"
    /\ Subdivides(arg[1], arg[2])
    /\ Len(stack) = MaxDepth
    /\ status' = "overflow"
    /\ UNCHANGED <<a, b, accuracy, capacity, entry, via, arg, stack, ret, last, calls>>
    /\ UNCHANGED <<forkVars, solveVars, pathVars, frameVars>>

\* Lines 149-163: extend with the sub-result just returned, then enter the
\* next sub-call.
Extend ==
    /\ status = "return"
    /\ stack # <<>>
    /\ LET f == stack[Len(stack)]
           g == [f EXCEPT !.result = extend(f.result, ret, 2 * accuracy, capacity),
                          !.subs = Append(f.subs, [a |-> last.a, b |-> last.b,
                                                   result |-> ret]),
                          !.next = f.next + 1]
       IN  /\ f.next < 4
           /\ stack' = [stack EXCEPT ![Len(stack)] = g]
           /\ arg' = Child(g, g.next)
    /\ status' = "call"
    /\ calls' = calls + 1
    /\ UNCHANGED <<a, b, accuracy, capacity, entry, via, ret, last>>
    /\ UNCHANGED <<forkVars, solveVars, pathVars, frameVars>>

\* Lines 163-165: extend with the fourth sub-result and return the result.
Merge ==
    /\ status = "return"
    /\ stack # <<>>
    /\ LET f == stack[Len(stack)]
           r == extend(f.result, ret, 2 * accuracy, capacity)
       IN  /\ f.next = 4
           /\ ret' = r
           /\ last' = Returned("merge", f.a, f.b,
                                Append(f.subs, [a |-> last.a, b |-> last.b,
                                                result |-> ret]), r)
    /\ stack' = SubSeq(stack, 1, Len(stack) - 1)
    /\ UNCHANGED <<a, b, accuracy, capacity, entry, via, status, arg, calls>>
    /\ UNCHANGED <<forkVars, solveVars, pathVars, frameVars>>

\* The top-level call has returned.
Return ==
    /\ status = "return"
    /\ stack = <<>>
    /\ status' = "done"
    /\ UNCHANGED <<a, b, accuracy, capacity, entry, via, arg, stack, ret, last, calls>>
    /\ UNCHANGED <<forkVars, solveVars, pathVars, frameVars>>

Next ==
    \/ IntersectReject
    \/ IntersectLine
    \/ IntersectFallback
    \/ Reject
    \/ BaseA
    \/ BaseB
    \/ Subdivide
    \/ StackOverflow
    \/ Extend
    \/ Merge
    \/ Return

Spec == Init /\ [][Next]_vars

\* The same calls, also with an accuracy that is zero or negative.
NonPositive == {0, -4}

ContractInit ==
    /\ entry \in {"find_intersections_bbox", "intersect"}
    /\ IF entry = "intersect"
       THEN /\ \E ab \in IntersectPairs :
                  a = Monotone(ab[1]) /\ b = Monotone(ab[2])
            /\ status = "intersect"
            /\ calls = 0
       ELSE /\ \E ab \in Pairs, m \in BOOLEAN :
                  /\ a = IF m THEN Monotone(ab[1]) ELSE ab[1]
                  /\ b = IF m THEN Monotone(ab[2]) ELSE ab[2]
            /\ status = "call"
            /\ calls = 1
    /\ accuracy \in Accuracies \cup NonPositive
    /\ capacity \in 0..MaxCap
    /\ via = "none"
    /\ arg = <<a, b>>
    /\ stack = <<>>
    /\ ret = <<>>
    /\ last = NoCall
    /\ NoFork
    /\ NoSolve
    /\ NoPath
    /\ NoFrame

SpecContract == ContractInit /\ [][Next]_vars

(***************************************************************************)
(* find_intersections_bbox as a function of its arguments: what the        *)
(* sequential code of lines 115-166 computes, the four sub-calls made in   *)
(* the order of the source.  A fault of a sub-call ends the whole call.    *)
(***************************************************************************)

Ok(points) == [st |-> "done", result |-> points]

Fault(how) == [st |-> how, result |-> <<>>]

RECURSIVE find_intersections_bbox(_, _, _, _, _)
find_intersections_bbox(x, y, acc, cap, depth) ==
    LET ba == bounding_box(x)
        bb == bounding_box(y)
    IN  IF ~bboxes_overlap(ba, bb) THEN Ok(<<>>)
        ELSE IF width(ba) < acc /\ height(ba) < acc
        THEN IF is_full(<<>>, cap) THEN Fault("panic") ELSE Ok(<<center(ba)>>)
        ELSE IF width(bb) < acc /\ height(bb) < acc
        THEN IF is_full(<<>>, cap) THEN Fault("panic") ELSE Ok(<<center(bb)>>)
        ELSE IF depth > MaxDepth THEN Fault("overflow")
        ELSE
            LET sa == subdivide(x)
                sb == subdivide(y)
                f  == [a1 |-> sa[1], a2 |-> sa[2], b1 |-> sb[1], b2 |-> sb[2]]
                r1 == find_intersections_bbox(Child(f, 1)[1], Child(f, 1)[2], acc, cap, depth + 1)
                r2 == find_intersections_bbox(Child(f, 2)[1], Child(f, 2)[2], acc, cap, depth + 1)
                r3 == find_intersections_bbox(Child(f, 3)[1], Child(f, 3)[2], acc, cap, depth + 1)
                r4 == find_intersections_bbox(Child(f, 4)[1], Child(f, 4)[2], acc, cap, depth + 1)
                e1 == extend(<<>>, r1.result, 2 * acc, cap)
                e2 == extend(e1, r2.result, 2 * acc, cap)
                e3 == extend(e2, r3.result, 2 * acc, cap)
                e4 == extend(e3, r4.result, 2 * acc, cap)
            IN  IF r1.st # "done" THEN r1
                ELSE IF r2.st # "done" THEN r2
                ELSE IF r3.st # "done" THEN r3
                ELSE IF r4.st # "done" THEN r4
                ELSE Ok(e4)

(***************************************************************************)
(* Fork-join evaluation of find_intersections_bbox: the four sub-calls of  *)
(* an activation are forked as tasks that run in any order and any         *)
(* interleaving, each on its own two sub-curves with an output container   *)
(* of its own; the parent joins them when all four have ended and merges   *)
(* their results in the order of lines 160-163.                            *)
(***************************************************************************)

ForkPairs == {<<L1, L1>>, <<L1, L3>>, <<L1, L4>>, <<Q1, L3>>, <<C1, C2>>}

ForkAccuracies == {16, 20}

\* A task is named by its path in the call tree: <<>> is the top-level call,
\* Append(p, k) the k-th sub-call of p.
Task(x, y) == [a |-> x, b |-> y, st |-> "ready", result |-> <<>>]

Kids(p) == {Append(p, k) : k \in 1..4}

Ended(t) == t.st \in {"done", "panic"}

\* The merge of the four sub-results, in the order of lines 160-163.
join_reversed(results, double, cap) ==
    extend(extend(extend(extend(<<>>, results[4], double, cap),
                         results[3], double, cap),
                  results[2], double, cap),
           results[1], double, cap)

join(results, double, cap) ==
    extend(extend(extend(extend(<<>>, results[1], double, cap),
                         results[2], double, cap),
                  results[3], double, cap),
           results[4], double, cap)

ForkInit ==
    /\ \E ab \in ForkPairs, m \in BOOLEAN :
          /\ a = IF m THEN Monotone(ab[1]) ELSE ab[1]
          /\ b = IF m THEN Monotone(ab[2]) ELSE ab[2]
    /\ accuracy \in ForkAccuracies
    /\ capacity \in 0..MaxCap
    /\ tasks = [p \in {<<>>} |-> Task(a, b)]
    /\ entry = "fork"
    /\ via = "none"
    /\ status = "fork"
    /\ arg = <<a, b>>
    /\ stack = <<>>
    /\ ret = <<>>
    /\ last = NoCall
    /\ calls = 0
    /\ NoSolve
    /\ NoPath
    /\ NoFrame

Finish(p, st, result) ==
    /\ tasks' = [tasks EXCEPT ![p].st = st, ![p].result = result]
    /\ UNCHANGED <<inputVars, searchVars, solveVars, pathVars, frameVars>>

\* Lines 126-128 in task p.
TaskReject(p) ==
    /\ tasks[p].st = "ready"
    /\ ~bboxes_overlap(bounding_box(tasks[p].a), bounding_box(tasks[p].b))
    /\ Finish(p, "done", <<>>)

\* Lines 133-136 in task p.
TaskBaseA(p) ==
    LET ba == bounding_box(tasks[p].a)
        bb == bounding_box(tasks[p].b)
    IN  /\ tasks[p].st = "ready"
        /\ bboxes_overlap(ba, bb)
        /\ width(ba) < accuracy /\ height(ba) < accuracy
        /\ IF is_full(<<>>, capacity) THEN Finish(p, "panic", <<>>)
           ELSE Finish(p, "done", <<center(ba)>>)

\* Lines 138-141 in task p.
TaskBaseB(p) ==
    LET ba == bounding_box(tasks[p].a)
        bb == bounding_box(tasks[p].b)
    IN  /\ tasks[p].st = "ready"
        /\ bboxes_overlap(ba, bb)
        /\ ~(width(ba) < accuracy /\ height(ba) < accuracy)
        /\ width(bb) < accuracy /\ height(bb) < accuracy
        /\ IF is_full(<<>>, capacity) THEN Finish(p, "panic", <<>>)
           ELSE Finish(p, "done", <<center(bb)>>)

\* Lines 145-146 and the four calls of lines 160-163, forked.
Fork(p) ==
    /\ tasks[p].st = "ready"
    /\ Subdivides(tasks[p].a, tasks[p].b)
    /\ LET sa == subdivide(tasks[p].a)
           sb == subdivide(tasks[p].b)
           f  == [a1 |-> sa[1], a2 |-> sa[2], b1 |-> sb[1], b2 |-> sb[2]]
       IN  tasks' = [q \in DOMAIN tasks \cup Kids(p) |->
                        IF q = p THEN [tasks[p] EXCEPT !.st = "forked"]
                        ELSE IF q \in DOMAIN tasks THEN tasks[q]
                        ELSE Task(Child(f, q[Len(q)])[1], Child(f, q[Len(q)])[2])]
    /\ UNCHANGED <<inputVars, searchVars, solveVars, pathVars, frameVars>>

\* Lines 149-165: all four sub-calls have ended; merge and return.
Join(p) ==
    /\ tasks[p].st = "forked"
    /\ \A q \in Kids(p) : Ended(tasks[q])
    /\ LET results == [k \in 1..4 |-> tasks[Append(p, k)].result]
           t == IF \E q \in Kids(p) : tasks[q].st = "panic"
                THEN [tasks[p] EXCEPT !.st = "panic"]
                ELSE [tasks[p] EXCEPT !.st = "done",
                                      !.result = join(results, 2 * accuracy, capacity)]
       IN  tasks' = [q \in DOMAIN tasks \ Kids(p) |-> IF q = p THEN t ELSE tasks[q]]
    /\ UNCHANGED <<inputVars, searchVars, solveVars, pathVars, frameVars>>

ForkNext ==
    \E p \in DOMAIN tasks :
        \/ TaskReject(p)
        \/ TaskBaseA(p)
        \/ TaskBaseB(p)
        \/ Fork(p)
        \/ Join(p)

SpecFork == ForkInit /\ [][ForkNext]_vars

(***************************************************************************)
(* ParamCurveSolve.  Coordinate values and parameters are exact rationals: *)
(* the tolerances of this part (1e-6, 1e-3) are far above the rounding of  *)
(* an f64.  A polynomial p(t) = v with v = n/d is solved as d p(t) = n,    *)
(* which has the same roots and integer coefficients.                      *)
(***************************************************************************)

EPSILON == [n |-> 1, d |-> 1000000]

MAX_SOLVE == 3

\* A filter that keeps every root.
filter_t_none(vec) == collect(vec, MAX_SOLVE)

\* A filter with exclusive bounds.
filter_t_exclusive(vec) ==
    collect(SelectSeq(vec, LAMBDA t : /\ -t.n < t.d \div EPSILON.d
                                      /\ t.n - t.d < t.d \div EPSILON.d),
            MAX_SOLVE)

\* Lines 290-295: -EPSILON <= t && t <= 1.0 + EPSILON, collected.
filter_t(vec) ==
    collect(SelectSeq(vec, LAMBDA t : /\ -t.n <= t.d \div EPSILON.d
                                      /\ t.n - t.d <= t.d \div EPSILON.d),
            MAX_SOLVE)

\* Lines 251-263, the coefficients times v.d.
cubic_coefs(p0, p1, p2, p3, v) ==
    <<p0 * v.d - v.n,
      (-3 * p0 + 3 * p1) * v.d,
      (3 * p0 - 6 * p1 + 3 * p2) * v.d,
      (-p0 + 3 * p1 - 3 * p2 + p3) * v.d>>

solve_cubic_t_for_v(p0, p1, p2, p3, v) ==
    LET c == cubic_coefs(p0, p1, p2, p3, v)
    IN  filter_t(solve_cubic(c[1], c[2], c[3], c[4]))

\* Coefficients with the factor 2 of p1 lost in c1.
quad_coefs_slip(p0, p1, p2, v) ==
    <<p0 * v.d - v.n, (-2 * p0 + p1) * v.d, (p0 - 2 * p1 + p2) * v.d, 0>>

\* Lines 266-276.
quad_coefs(p0, p1, p2, v) ==
    <<p0 * v.d - v.n, (-2 * p0 + 2 * p1) * v.d, (p0 - 2 * p1 + p2) * v.d, 0>>

solve_quad_t_for_v(p0, p1, p2, v) ==
    LET c == quad_coefs(p0, p1, p2, v)
    IN  filter_t(solve_quadratic(c[1], c[2], c[3]))

\* Lines 279-287.
line_coefs(p0, p1, v) == <<p0 * v.d - v.n, (-p0 + p1) * v.d, 0, 0>>

solve_line_t_for_v(p0, p1, v) ==
    LET c == line_coefs(p0, p1, v)
    IN  filter_t(solve_linear(c[1], c[2]))

solve_t_for_v(cs, v) ==
    CASE Len(cs) = 2 -> solve_line_t_for_v(cs[1], cs[2], v)
      [] Len(cs) = 3 -> solve_quad_t_for_v(cs[1], cs[2], cs[3], v)
      [] Len(cs) = 4 -> solve_cubic_t_for_v(cs[1], cs[2], cs[3], cs[4], v)

\* Lines 201-247: the impls for PathSeg, CubicBez, QuadBez and Line.
solve_t_for_x(seg, x) == solve_t_for_v(xs(seg), x)

solve_t_for_y(seg, y) == solve_t_for_v(ys(seg), y)

\* The point of a segment at t, exactly.
eval_exact(seg, t) ==
    [x |-> poly_at(coefs(xs(seg)), t), y |-> poly_at(coefs(ys(seg)), t)]

\* Lines 181-186 and 189-194.
solve_y_for_x(seg, x) ==
    LET ts == solve_t_for_x(seg, x)
    IN  collect([i \in 1..Len(ts) |-> eval_exact(seg, ts[i]).y], MAX_SOLVE)

solve_x_for_y(seg, y) ==
    LET ts == solve_t_for_y(seg, y)
    IN  collect([i \in 1..Len(ts) |-> eval_exact(seg, ts[i]).x], MAX_SOLVE)

\* The curves solved on: those of test_curves, a long line, a horizontal
\* line, an arch and an S-shaped cubic.
SolveLine  == Line(Pt(0, 0), Pt(35, 10))
SolveQuad  == Quad(Pt(0, 0), Pt(35, 0), Pt(80, 35))
SolveCubic == Cubic(Pt(0, 0), Pt(35, 0), Pt(80, 35), Pt(80, 70))
LongLine   == Line(Pt(0, 0), Pt(4000000, 2000000))

FlatLine   == Line(Pt(0, 0), Pt(35, 0))

SolveCurves == {SolveLine, SolveQuad, SolveCubic, LongLine, FlatLine, Q1, C1}

Methods == {"solve_t_for_x", "solve_t_for_y", "solve_y_for_x", "solve_x_for_y"}

\* The control values of the coordinate a method solves for.
Solved(seg, m) ==
    IF m \in {"solve_t_for_x", "solve_y_for_x"} THEN xs(seg) ELSE ys(seg)

\* The parameters at which the curves are probed for coordinate values.
ProbeTs ==
    {[n |-> -1, d |-> 1], [n |-> -1, d |-> 2], [n |-> 0, d |-> 1],
     [n |-> 1, d |-> 4], [n |-> 1, d |-> 2], [n |-> 3, d |-> 4],
     [n |-> 1, d |-> 1],
     [n |-> 3, d |-> 2], [n |-> 2, d |-> 1]}

\* Coordinate values far from the curves, and distances from their ends.
FarValues == {-20, -10, 100}

NearOffsets == {2, 8, 20}

Values(cs) ==
    {poly_at(coefs(cs), t) : t \in ProbeTs}
    \cup {RatInt(k) : k \in FarValues}
    \cup {RatInt(cs[1] - k) : k \in NearOffsets}
    \cup {RatInt(cs[Len(cs)] + k) : k \in NearOffsets}

\* The coefficients handed to the root solver for the value v.
Coefs(cs, v) ==
    CASE Len(cs) = 2 -> line_coefs(cs[1], cs[2], v)
      [] Len(cs) = 3 -> quad_coefs(cs[1], cs[2], cs[3], v)
      [] Len(cs) = 4 -> cubic_coefs(cs[1], cs[2], cs[3], cs[4], v)

\* The closed-form solver of the model is exact on the polynomial.
Exact(cs, v) ==
    LET c == Coefs(cs, v) IN ExactCubic(c[1], c[2], c[3], c[4])

SolveInit ==
    /\ curve \in SolveCurves
    /\ method \in Methods
    /\ value \in {v \in Values(Solved(curve, method)) : Exact(Solved(curve, method), v)}
    /\ phase = "ready"
    /\ out = <<>>
    /\ a = <<>>
    /\ b = <<>>
    /\ accuracy = 0
    /\ capacity = MAX_SOLVE
    /\ entry = "solve"
    /\ via = "none"
    /\ status = "solve"
    /\ arg = <<>>
    /\ stack = <<>>
    /\ ret = <<>>
    /\ last = NoCall
    /\ calls = 0
    /\ NoFork
    /\ NoPath
    /\ NoFrame

SolveTForX ==
    /\ phase = "ready"
    /\ method = "solve_t_for_x"
    /\ out' = solve_t_for_x(curve, value)
    /\ phase' = "done"
    /\ UNCHANGED <<curve, value, method, inputVars, searchVars, forkVars, pathVars, frameVars>>

SolveTForY ==
    /\ phase = "ready"
    /\ method = "solve_t_for_y"
    /\ out' = solve_t_for_y(curve, value)
    /\ phase' = "done"
    /\ UNCHANGED <<curve, value, method, inputVars, searchVars, forkVars, pathVars, frameVars>>

SolveYForX ==
    /\ phase = "ready"
    /\ method = "solve_y_for_x"
    /\ out' = solve_y_for_x(curve, value)
    /\ phase' = "done"
    /\ UNCHANGED <<curve, value, method, inputVars, searchVars, forkVars, pathVars, frameVars>>

SolveXForY ==
    /\ phase = "ready"
    /\ method = "solve_x_for_y"
    /\ out' = solve_x_for_y(curve, value)
    /\ phase' = "done"
    /\ UNCHANGED <<curve, value, method, inputVars, searchVars, forkVars, pathVars, frameVars>>

SolveNext ==
    \/ SolveTForX
    \/ SolveTForY
    \/ SolveYForX
    \/ SolveXForY

SpecSolve == SolveInit /\ [][SolveNext]_vars

(***************************************************************************)
(* PathSegExt and TranslateScale * Monotone<PathSeg>                        *)
(***************************************************************************)

\* No search, fork or solve is under way.
NoSearch ==
    /\ a = <<>>
    /\ b = <<>>
    /\ accuracy = 0
    /\ capacity = 0
    /\ entry = "none"
    /\ via = "none"
    /\ status = "none"
    /\ arg = <<>>
    /\ stack = <<>>
    /\ ret = <<>>
    /\ last = NoCall
    /\ calls = 0

\* super::Affine with the coefficients c = [a, b, c, d, e, f], and
\* super::TranslateScale with a scale and a translation t.
Affine(c) == [kind |-> "Affine", c |-> c]

TranslateScale(scale, t) == [kind |-> "TranslateScale", scale |-> scale, t |-> t]

\* Affine * Point and TranslateScale * Point.
affine_mul_pt(af, p) ==
    Pt(af.c[1] * p.x + af.c[3] * p.y + af.c[5],
       af.c[2] * p.x + af.c[4] * p.y + af.c[6])

ts_mul_pt(ts, p) == Pt(ts.scale * p.x + ts.t.x, ts.scale * p.y + ts.t.y)

\* Affine * Line, * QuadBez, * CubicBez and the same for TranslateScale:
\* the curve of the transformed control points ps.
affine_mul(af, ps) == [i \in 1..Len(ps) |-> affine_mul_pt(af, ps[i])]

ts_mul(ts, ps) == [i \in 1..Len(ps) |-> ts_mul_pt(ts, ps[i])]

\* apply_affine with the Quad arm building a Cubic.
apply_affine_cubic_arm(s, af) ==
    CASE s.kind = "Line"  -> [kind |-> "Line", p |-> affine_mul(af, s.p)]
      [] s.kind = "Quad"  -> [kind |-> "Cubic", p |-> affine_mul(af, s.p)]
      [] s.kind = "Cubic" -> [kind |-> "Cubic", p |-> affine_mul(af, s.p)]

\* Lines 305-311.
apply_affine(s, af) ==
    CASE s.kind = "Line"  -> [kind |-> "Line", p |-> affine_mul(af, s.p)]
      [] s.kind = "Quad"  -> [kind |-> "Quad", p |-> affine_mul(af, s.p)]
      [] s.kind = "Cubic" -> [kind |-> "Cubic", p |-> affine_mul(af, s.p)]

\* Lines 313-319.
apply_translate_scale(s, ts) ==
    CASE s.kind = "Line"  -> [kind |-> "Line", p |-> ts_mul(ts, s.p)]
      [] s.kind = "Quad"  -> [kind |-> "Quad", p |-> ts_mul(ts, s.p)]
      [] s.kind = "Cubic" -> [kind |-> "Cubic", p |-> ts_mul(ts, s.p)]

\* Lines 83-90: TranslateScale * Monotone<PathSeg>.
mul(ts, other) == Monotone(apply_translate_scale(other.seg, ts))

\* The transforms applied: the identity, a quarter turn, a shear with a
\* translation, a mirroring stretch and a collapse to one point.
Affines ==
    {Affine(<<1, 0, 0, 1, 0, 0>>), Affine(<<0, 1, -1, 0, 0, 0>>),
     Affine(<<1, 0, 2, 1, 4, -6>>), Affine(<<2, 0, 0, -1, 0, 8>>),
     Affine(<<0, 0, 0, 0, 2, 2>>)}

TranslateScales ==
    {TranslateScale(1, Pt(0, 0)), TranslateScale(2, Pt(4, -2)),
     TranslateScale(-1, Pt(0, 0)), TranslateScale(0, Pt(6, 6))}

PathSegs == {L1, L2, Tiny, Q1, Q2, Q3, C1, C2, SolveLine, SolveQuad, SolveCubic}

PathInit ==
    /\ \E s \in PathSegs : pseg \in {s, Monotone(s)}
    /\ xform \in IF IsMonotone(pseg) THEN TranslateScales
                                     ELSE Affines \cup TranslateScales
    /\ image = <<>>
    /\ NoSearch
    /\ NoFork
    /\ NoSolve
    /\ NoFrame

ApplyAffine ==
    /\ image = <<>>
    /\ ~IsMonotone(pseg)
    /\ xform.kind = "Affine"
    /\ image' = [by |-> "apply_affine", seg |-> apply_affine(pseg, xform)]
    /\ UNCHANGED <<pseg, xform, inputVars, searchVars, forkVars, solveVars, frameVars>>

ApplyTranslateScale ==
    /\ image = <<>>
    /\ ~IsMonotone(pseg)
    /\ xform.kind = "TranslateScale"
    /\ image' = [by |-> "apply_translate_scale",
                 seg |-> apply_translate_scale(pseg, xform)]
    /\ UNCHANGED <<pseg, xform, inputVars, searchVars, forkVars, solveVars, frameVars>>

Mul ==
    /\ image = <<>>
    /\ IsMonotone(pseg)
    /\ image' = [by |-> "mul", seg |-> mul(xform, pseg)]
    /\ UNCHANGED <<pseg, xform, inputVars, searchVars, forkVars, solveVars, frameVars>>

PathNext == ApplyAffine \/ ApplyTranslateScale \/ Mul

SpecPath == PathInit /\ [][PathNext]_vars

(***************************************************************************)
(* Frame (frame.rs): frames hold their elements behind an Arc.  The Arc    *)
(* allocations are the variable heap, by address; the strong count of an   *)
(* allocation is the number of Arcs pointing to it: those of the frames    *)
(* held and those of the frames inside Group elements.                     *)
(***************************************************************************)

None == [is |-> "None"]

Some(v) == [is |-> "Some", v |-> v]

\* Point::zero, Point::is_zero and Point + Point.
Zero == Pt(0, 0)

is_zero(p) == p = Zero

PtAdd(p, q) == Pt(p.x + q.x, p.y + q.y)

\* The elements (lines 296-309): two leaf variants and Group (lines 323-343).
Text == [kind |-> "Text"]

Shape == [kind |-> "Shape"]

Group(fr, tf, cl) == [kind |-> "Group", frame |-> fr, transform |-> tf, clips |-> cl]

\* Lines 32-44: Frame::new, its Arc allocated at ad.
new(size, ad) == [size |-> size, baseline |-> None, role |-> None, elements |-> ad]

\* Lines 469-480.
is_weak(role) == role \in {"Paragraph", "GenericBlock", "GenericInline"}

\* Lines 71-74 and 76-79.
baseline(self) == IF self.baseline = None THEN self.size.y ELSE self.baseline.v

set_baseline(self, top) == [self EXCEPT !.baseline = Some(top)]

\* Arc::strong_count: the Arcs pointing to the allocation at ad.
strong_count(ad) ==
    Cardinality({k \in DOMAIN frames : frames[k] # None /\ frames[k].elements = ad})
    + Cardinality({di \in UNION {{<<d, i>> : i \in 1..Len(heap[d])} : d \in DOMAIN heap} :
                      LET e == heap[di[1]][di[2]][2]
                      IN  e.kind = "Group" /\ e.frame.elements = ad})

\* The address of a new allocation.
Fresh == CHOOSE n \in 1..(Cardinality(DOMAIN heap) + 1) : n \notin DOMAIN heap

\* make_mut that never clones.
make_mut_in_place(ad) == ad

\* Arc::make_mut: the allocation itself when the Arc is the only one, a new
\* one (holding a clone) otherwise.
make_mut(ad) == IF strong_count(ad) = 1 THEN ad ELSE Fresh

Store(h, ad, vec) == [d \in DOMAIN h \cup {ad} |-> IF d = ad THEN vec ELSE h[d]]

\* self after Arc::make_mut(&mut self.elements) and a write of vec.
Put(self, vec) ==
    LET ad == make_mut(self.elements)
    IN  [frame |-> [self EXCEPT !.elements = ad], heap |-> Store(heap, ad, vec)]

\* Vec::splice(at .. at, items), Vec::insert.
Splice(vec, at, items) == SubSeq(vec, 1, at) \o items \o SubSeq(vec, at + 1, Len(vec))

\* Lines 118-121.
push(self, pos, element) ==
    Put(self, Append(heap[self.elements], <<pos, element>>))

\* Lines 135-141.
insert(self, at, pos, element) ==
    Put(self, Splice(heap[self.elements], at, <<<<pos, element>>>>))

\* Lines 143-146.
prepend(self, pos, element) ==
    Put(self, Splice(heap[self.elements], 0, <<<<pos, element>>>>))

\* Lines 148-157.
prepend_multiple(self, elements) ==
    Put(self, Splice(heap[self.elements], 0, elements))

\* Lines 168-172.
should_inline(self, frame) ==
    /\ heap[self.elements] = <<>> \/ Len(heap[frame.elements]) <= 5
    /\ frame.role = None \/ is_weak(frame.role.v)

\* Lines 174-209.  Arc::try_unwrap moves the vector out of an unshared Arc
\* and the Err arm clones it: the items spliced in are the same.
inline(self, at, pos, frame) ==
    LET items == heap[frame.elements]
    IN  IF is_zero(pos) /\ heap[self.elements] = <<>>
        THEN [frame |-> [self EXCEPT !.elements = frame.elements], heap |-> heap]
        ELSE IF is_zero(pos)
        THEN Put(self, Splice(heap[self.elements], at, items))
        ELSE Put(self, Splice(heap[self.elements], at,
                       [i \in 1..Len(items) |-> <<PtAdd(items[i][1], pos), items[i][2]>>]))

\* Lines 123-133.
push_frame(self, pos, frame) ==
    IF should_inline(self, frame)
    THEN inline(self, Len(heap[self.elements]), pos, frame)
    ELSE push(self, pos, Group(frame, "identity", FALSE))

\* Lines 159-166.
prepend_frame(self, pos, frame) ==
    IF should_inline(self, frame)
    THEN inline(self, 0, pos, frame)
    ELSE prepend(self, pos, Group(frame, "identity", FALSE))

\* Lines 214-221.
clear(self) ==
    IF strong_count(self.elements) = 1
    THEN Put(self, <<>>)
    ELSE [frame |-> [self EXCEPT !.elements = Fresh], heap |-> Store(heap, Fresh, <<>>)]

\* translate moving the elements and leaving the baseline.
translate_elements_only(self, offset) ==
    IF ~is_zero(offset)
    THEN LET vec == heap[self.elements]
         IN  Put(self, [i \in 1..Len(vec) |-> <<PtAdd(vec[i][1], offset), vec[i][2]>>])
    ELSE [frame |-> self, heap |-> heap]

\* Lines 236-246.
translate(self, offset) ==
    IF ~is_zero(offset)
    THEN LET vec == heap[self.elements]
         IN  Put([self EXCEPT !.baseline =
                      IF @ = None THEN None ELSE Some(@.v + offset.y)],
                 [i \in 1..Len(vec) |-> <<PtAdd(vec[i][1], offset), vec[i][2]>>])
    ELSE [frame |-> self, heap |-> heap]

\* Align::position: where the start of the content goes in the free space.
position(align, free) == IF align = "Start" THEN 0 ELSE free

\* Lines 223-234.
resize(self, target, aligns) ==
    IF self.size # target
    THEN translate([self EXCEPT !.size = target],
                   Pt(position(aligns.x, target.x - self.size.x),
                      position(aligns.y, target.y - self.size.y)))
    ELSE [frame |-> self, heap |-> heap]

\* apply_role that never replaces a role.
apply_role_if_none(self, role) ==
    IF self.role = None THEN [self EXCEPT !.role = Some(role)] ELSE self

\* Lines 248-253.
apply_role(self, role) ==
    IF self.role = None \/ (is_weak(self.role.v) /\ ~is_weak(role))
    THEN [self EXCEPT !.role = Some(role)]
    ELSE self

\* Lines 270-282: the wrapper, a new frame of the size and baseline of self
\* holding self in one Group.
group(self, tf, cl) ==
    [frame |-> [new(self.size, Fresh) EXCEPT !.baseline = self.baseline],
     heap  |-> Store(heap, Fresh, <<<<Zero, Group(self, tf, cl)>>>>)]

\* Lines 260-263 and 265-268.
transform(self, tf) == group(self, tf, FALSE)

clip(self) == group(self, "identity", TRUE)

\* Dropping Arcs: what stays allocated is what the frames held still reach,
\* directly or through the frames inside Group elements.
GroupArcs(h, d) ==
    {h[d][i][2].frame.elements : i \in {j \in 1..Len(h[d]) : h[d][j][2].kind = "Group"}}

RECURSIVE Reach(_, _)
Reach(h, ads) ==
    LET more == ads \cup UNION {GroupArcs(h, d) : d \in ads}
    IN  IF more = ads THEN ads ELSE Reach(h, more)

Slots == {"self", "other", "clone"}

Size == Pt(8, 6)

Positions == {Zero, Pt(1, 2)}

Roles == {"Paragraph", "GenericBlock", "Heading", "Table"}

Targets == {Size, Pt(12, 9)}

Aligns == {[x |-> "Start", y |-> "Start"], [x |-> "End", y |-> "End"]}

MaxOps == 3

Sweep(fs, h) ==
    [d \in Reach(h, {fs[k].elements : k \in {j \in Slots : fs[j] # None}}) |-> h[d]]

\* What is observed through a frame: its fields and its elements with their
\* positions, the frames inside groups likewise.
RECURSIVE Observed(_, _)
Observed(h, fr) ==
    [size |-> fr.size, baseline |-> fr.baseline, role |-> fr.role,
     elements |-> [i \in 1..Len(h[fr.elements]) |->
                      LET pe == h[fr.elements][i]
                      IN  <<pe[1], IF pe[2].kind = "Group"
                                   THEN [pe[2] EXCEPT !.frame = Observed(h, @)]
                                   ELSE pe[2]>>]]

\* The frames held when the method called on "self" returned r and the
\* frames named in gone were moved into the call.
Held(r, gone) ==
    [k \in Slots |-> IF k = "self" THEN r.frame
                     ELSE IF k \in gone THEN None ELSE frames[k]]

\* The record of the call: its name and argument, the strong count of the
\* element list of "self" and what was observed through "self" before it.
Ran(name, x) ==
    [name |-> name, n |-> op.n + 1, arg |-> x,
     shared |-> strong_count(frames["self"].elements),
     was |-> Observed(heap, frames["self"])]

\* "self" is a new frame, empty or with one pushed element; "other" is a
\* frame of two elements with no role, a weak one or a strong one.
FrameInit ==
    /\ \E first \in {<<>>, <<<<Pt(1, 2), Text>>>>}, r \in {None, Some("Paragraph"), Some("Heading")} :
          /\ frames = [k \in Slots |->
                          CASE k = "self"  -> new(Size, 1)
                            [] k = "other" -> [new(Size, 2) EXCEPT !.role = r]
                            [] k = "clone" -> None]
          /\ heap = <<first, <<<<Zero, Text>>, <<Pt(1, 2), Shape>>>>>>
    /\ op = [name |-> "new", n |-> 0, arg |-> <<>>, shared |-> 1, was |-> <<>>]
    /\ NoSearch
    /\ NoFork
    /\ NoSolve
    /\ NoPath

\* #[derive(Clone)] (line 17): the clone holds another Arc to the same list.
Clone ==
    /\ frames["clone"] = None
    /\ \E k \in {"self", "other"} :
          /\ frames[k] # None
          /\ frames' = [frames EXCEPT !["clone"] = frames[k]]
          /\ op' = [op EXCEPT !.name = "clone", !.arg = k]
    /\ UNCHANGED heap
    /\ UNCHANGED <<inputVars, searchVars, forkVars, solveVars, pathVars>>

SetBaseline ==
    /\ op.n < MaxOps
    /\ LET r == [frame |-> set_baseline(frames["self"], 3), heap |-> heap]
       IN  /\ frames' = Held(r, {})
           /\ heap' = Sweep(Held(r, {}), r.heap)
           /\ op' = Ran("set_baseline", 3)
    /\ UNCHANGED <<inputVars, searchVars, forkVars, solveVars, pathVars>>

Push ==
    /\ op.n < MaxOps
    /\ \E pos \in Positions :
          LET r == push(frames["self"], pos, Text)
          IN  /\ frames' = Held(r, {})
              /\ heap' = Sweep(Held(r, {}), r.heap)
              /\ op' = Ran("push", pos)
    /\ UNCHANGED <<inputVars, searchVars, forkVars, solveVars, pathVars>>

Insert ==
    /\ op.n < MaxOps
    /\ \E at \in 0..Len(heap[frames["self"].elements]) :
          LET r == insert(frames["self"], at, Pt(1, 2), Shape)
          IN  /\ frames' = Held(r, {})
              /\ heap' = Sweep(Held(r, {}), r.heap)
              /\ op' = Ran("insert", at)
    /\ UNCHANGED <<inputVars, searchVars, forkVars, solveVars, pathVars>>

Prepend ==
    /\ op.n < MaxOps
    /\ LET r == prepend(frames["self"], Zero, Shape)
       IN  /\ frames' = Held(r, {})
           /\ heap' = Sweep(Held(r, {}), r.heap)
           /\ op' = Ran("prepend", Zero)
    /\ UNCHANGED <<inputVars, searchVars, forkVars, solveVars, pathVars>>

PrependMultiple ==
    /\ op.n < MaxOps
    /\ LET r == prepend_multiple(frames["self"], <<<<Zero, Shape>>, <<Pt(1, 2), Text>>>>)
       IN  /\ frames' = Held(r, {})
           /\ heap' = Sweep(Held(r, {}), r.heap)
           /\ op' = Ran("prepend_multiple", 2)
    /\ UNCHANGED <<inputVars, searchVars, forkVars, solveVars, pathVars>>

PushFrame ==
    /\ op.n < MaxOps
    /\ \E k \in {"other", "clone"}, pos \in Positions :
          /\ frames[k] # None
          /\ LET r == push_frame(frames["self"], pos, frames[k])
             IN  /\ frames' = Held(r, {k})
                 /\ heap' = Sweep(Held(r, {k}), r.heap)
                 /\ op' = Ran("push_frame", pos)
    /\ UNCHANGED <<inputVars, searchVars, forkVars, solveVars, pathVars>>

PrependFrame ==
    /\ op.n < MaxOps
    /\ \E k \in {"other", "clone"}, pos \in Positions :
          /\ frames[k] # None
          /\ LET r == prepend_frame(frames["self"], pos, frames[k])
             IN  /\ frames' = Held(r, {k})
                 /\ heap' = Sweep(Held(r, {k}), r.heap)
                 /\ op' = Ran("prepend_frame", pos)
    /\ UNCHANGED <<inputVars, searchVars, forkVars, solveVars, pathVars>>

Clear ==
    /\ op.n < MaxOps
    /\ LET r == clear(frames["self"])
       IN  /\ frames' = Held(r, {})
           /\ heap' = Sweep(Held(r, {}), r.heap)
           /\ op' = Ran("clear", <<>>)
    /\ UNCHANGED <<inputVars, searchVars, forkVars, solveVars, pathVars>>

Translate ==
    /\ op.n < MaxOps
    /\ \E offset \in Positions :
          LET r == translate(frames["self"], offset)
          IN  /\ frames' = Held(r, {})
              /\ heap' = Sweep(Held(r, {}), r.heap)
              /\ op' = Ran("translate", offset)
    /\ UNCHANGED <<inputVars, searchVars, forkVars, solveVars, pathVars>>

Resize ==
    /\ op.n < MaxOps
    /\ \E target \in Targets, aligns \in Aligns :
          LET r == resize(frames["self"], target, aligns)
          IN  /\ frames' = Held(r, {})
              /\ heap' = Sweep(Held(r, {}), r.heap)
              /\ op' = Ran("resize", <<target, aligns>>)
    /\ UNCHANGED <<inputVars, searchVars, forkVars, solveVars, pathVars>>

Transform ==
    /\ op.n < MaxOps
    /\ LET r == transform(frames["self"], "scale")
       IN  /\ frames' = Held(r, {})
           /\ heap' = Sweep(Held(r, {}), r.heap)
           /\ op' = Ran("transform", "scale")
    /\ UNCHANGED <<inputVars, searchVars, forkVars, solveVars, pathVars>>

Clip ==
    /\ op.n < MaxOps
    /\ LET r == clip(frames["self"])
       IN  /\ frames' = Held(r, {})
           /\ heap' = Sweep(Held(r, {}), r.heap)
           /\ op' = Ran("clip", <<>>)
    /\ UNCHANGED <<inputVars, searchVars, forkVars, solveVars, pathVars>>

ApplyRole ==
    /\ op.n < MaxOps
    /\ \E role \in Roles :
          LET r == [frame |-> apply_role(frames["self"], role), heap |-> heap]
          IN  /\ frames' = Held(r, {})
              /\ heap' = Sweep(Held(r, {}), r.heap)
              /\ op' = Ran("apply_role", role)
    /\ UNCHANGED <<inputVars, searchVars, forkVars, solveVars, pathVars>>

FrameNext ==
    \/ Clone
    \/ SetBaseline
    \/ Push
    \/ Insert
    \/ Prepend
    \/ PrependMultiple
    \/ PushFrame
    \/ PrependFrame
    \/ Clear
    \/ Translate
    \/ Resize
    \/ Transform
    \/ Clip
    \/ ApplyRole

SpecFrame == FrameInit /\ [][FrameNext]_vars

(***************************************************************************)
(* Properties                                                              *)
(***************************************************************************)

Done == status = "done"

ViaBbox == entry = "find_intersections_bbox" \/ via = "bbox"

Take(seq, n) == SubSeq(seq, 1, Min(Len(seq), n))

\* The activations and returned calls the state holds.
Frames == {stack[i] : i \in 1..Len(stack)}

\* Every sequence of points the solver holds: the result under construction
\* of each activation, the value in flight, and the last call's result.
Results ==
    {f.result : f \in Frames}
    \cup (IF ViaBbox /\ status \in {"return", "done"} THEN {ret} ELSE {})
    \cup (IF last.how # "none" THEN {last.result} ELSE {})

\* C1: for every capacity N >= 0, find_intersections_bbox and
\* Monotone::intersect return at most N points and never fault on overflow:
\* a point added to a full container is silently dropped, also in the base
\* case that pushes a bounding-box center.
C1_WithinCapacityNoFault ==
    /\ status # "panic"
    /\ Len(ret) <= capacity
    /\ \A r \in Results : Len(r) <= capacity

\* Total variation of the control polygon, the larger of the two axes: the
\* size that bounds the boxes of all sub-curves.
RECURSIVE Variation(_)
Variation(cs) ==
    IF Len(cs) < 2 THEN 0 ELSE Abs(cs[2] - cs[1]) + Variation(Tail(cs))

Span(c) == Max(Variation(xs(deref(c))), Variation(ys(deref(c))))

\* Halvings after which a size is below the accuracy (accuracy > 0).
RECURSIVE Levels(_, _)
Levels(size, acc) == IF size < acc THEN 0 ELSE 1 + Levels(size, 2 * acc)

LevelBound == Min(Levels(Span(a), accuracy), Levels(Span(b), accuracy)) + 1

\* C2: for every accuracy > 0 and every pair of curves the recursion
\* returns: every branch reaches non-overlapping boxes or a box below the
\* accuracy after a number of subdivision levels bounded in terms of the
\* initial size and the accuracy.
C2_TerminatesWithinLevels ==
    /\ status # "overflow"
    /\ Len(stack) <= LevelBound

\* What holds of the depth when the accuracy is above the spacing of the
\* coordinates.
DepthBoundedAboveUlp ==
    accuracy > ULP => /\ status # "overflow"
                      /\ Len(stack) <= LevelBound

SelfCall == entry = "find_intersections_bbox" /\ a = b /\ capacity >= 1

Degenerate(r) == width(r) = 0 \/ height(r) = 0

Small(r) == width(r) < accuracy /\ height(r) < accuracy

FailsOverlap(ra, rb) ==
    ra.x1 <= rb.x0 \/ rb.x1 <= ra.x0 \/ ra.y1 <= rb.y0 \/ rb.y1 <= ra.y0

\* C4: if the boxes of the two curves fail the strict-overlap test on any
\* edge (disjoint, touching at an edge or corner, or of zero width or height),
\* find_intersections_bbox returns the empty sequence without subdividing or
\* recursing, and Monotone::intersect returns the empty sequence before the
\* line path or the recursive fallback.
C4_RejectsWithoutRecursing ==
    /\ (entry = "find_intersections_bbox"
        /\ FailsOverlap(bounding_box(a), bounding_box(b))
        /\ status # "call")
          => /\ stack = <<>> /\ calls = 1
             /\ status \in {"return", "done"} /\ ret = <<>>
    /\ (entry = "intersect"
        /\ FailsOverlap(bounding_box(a), bounding_box(b))
        /\ status # "intersect")
          => Done /\ ret = <<>> /\ calls = 0 /\ via = "reject"
    /\ \A f \in Frames : ~FailsOverlap(f.ba, f.bb)
    /\ (last.how # "none" /\ FailsOverlap(last.ba, last.bb))
          => last.how = "reject" /\ last.result = <<>> /\ last.subs = <<>>

\* Boxes that only touch, or a box of zero height, were rejected at once.
C4_Witness ==
    /\ Done
    /\ LET ba == bounding_box(a)
           bb == bounding_box(b)
       IN  \/ ba.x1 = bb.x0
           \/ height(ba) = 0 /\ bb.y0 < ba.y0 /\ ba.y0 < bb.y1
    /\ ret = <<>>
    /\ calls <= 1

NoTwoClose(r, tol) ==
    \A i, j \in 1..Len(r) : i # j => ~approx_eq(r[i], r[j], tol)

\* C5: in the sequence find_intersections_bbox returns, at the top level and
\* at every recursion level, no two points are approximately equal at
\* tolerance 2 * accuracy.
C5_NoTwoClosePoints ==
    \A r \in Results : NoTwoClose(r, 2 * accuracy)

\* A call returned fewer points than its sub-calls offered although its
\* container was not full: a candidate was dropped as a duplicate.
C5_Witness ==
    /\ last.how = "merge"
    /\ Len(last.result) < capacity
    /\ Len(Cands(last.subs)) > Len(last.result)
    /\ Len(last.result) >= 2

\* The candidates that pass the dedup test, with no limit on their number.
RECURSIVE DedupFilter(_, _, _)
DedupFilter(kept, cands, tol) ==
    IF cands = <<>> THEN kept
    ELSE DedupFilter(
            IF \E i \in 1..Len(kept) : approx_eq(kept[i], Head(cands), tol)
            THEN kept ELSE Append(kept, Head(cands)),
            Tail(cands), tol)

\* The four sub-calls in the order aa, ab, ba, bb.
InFixedOrder(f, subs) ==
    \A k \in 1..Len(subs) :
        /\ subs[k].a = (IF k <= 2 THEN subdivide(f.a)[1] ELSE subdivide(f.a)[2])
        /\ subs[k].b = (IF k \in {1, 3} THEN subdivide(f.b)[1] ELSE subdivide(f.b)[2])

MergedInOrder(f, subs, result) ==
    /\ InFixedOrder(f, subs)
    /\ result = Take(DedupFilter(<<>>, Cands(subs), 2 * accuracy), capacity)

\* C6: at every non-base level the output is formed by visiting the four
\* sub-results in the order (a1,b1), (a1,b2), (a2,b1), (a2,b2), keeping the
\* points that pass the dedup test and truncating when the container is full:
\* the output is the first `capacity` elements of the dedup-filtered
\* concatenation.
C6_OrderedTruncatedMerge ==
    /\ \A f \in Frames :
          /\ Len(f.subs) = f.next - 1
          /\ MergedInOrder(f, f.subs, f.result)
    /\ last.how = "merge" =>
          /\ Len(last.subs) = 4
          /\ MergedInOrder(last, last.subs, last.result)

\* A merge that was cut short: candidates that pass the dedup test were left
\* out because the container was full.
C6_Witness ==
    /\ last.how = "merge"
    /\ capacity >= 1
    /\ Len(last.result) = capacity
    /\ Len(DedupFilter(<<>>, Cands(last.subs), 2 * accuracy)) > capacity

\* The points of the hits of a segment with a line, mapped through the line.
HitPoints(seg, line) ==
    LET hits == intersect_line(seg, line)
    IN  [i \in 1..Len(hits) |-> seg_eval(line, hits[i].line_t)]

\* The hits of the operand that is not a line with the line, or of self with
\* other's line when both are lines.
LineHits ==
    IF b.seg.kind = "Line" THEN HitPoints(a.seg, b.seg)
    ELSE HitPoints(b.seg, a.seg)

AnyLine == a.seg.kind = "Line" \/ b.seg.kind = "Line"

IntersectDecided ==
    /\ entry = "intersect"
    /\ status # "intersect"
    /\ ~FailsOverlap(bounding_box(a), bounding_box(b))

\* C8 as stated: when the boxes overlap and an operand is a Line, the solver
\* is never called and the result is exactly the sequence of the hits of
\* intersect_line mapped to line.eval(line_t), in order, whatever the
\* accuracy and with no dedup; otherwise find_intersections_bbox is used.
C8_LineHitsExactly ==
    IntersectDecided =>
        IF AnyLine
        THEN Done /\ via = "line" /\ calls = 0 /\ ret = LineHits
        ELSE via = "bbox" /\ calls >= 1 /\ (calls = 1 => arg = <<a, b>>)

\* C8 as amended: the result is the hits that fit the capacity of the output:
\* the first min(N, number of hits) of them.
C8_LineHitsTruncated ==
    IntersectDecided =>
        IF AnyLine
        THEN Done /\ via = "line" /\ calls = 0 /\ ret = Take(LineHits, capacity)
        ELSE via = "bbox" /\ calls >= 1 /\ (calls = 1 => arg = <<a, b>>)

\* Self is the line, and two hits closer than 2 * accuracy are both kept.
C8_Witness ==
    /\ IntersectDecided /\ Done
    /\ a.seg.kind = "Line" /\ b.seg.kind # "Line"
    /\ Len(ret) = 2
    /\ approx_eq(ret[1], ret[2], 2 * accuracy)

Half == [n |-> 1, d |-> 2]

Quarter == [n |-> 1, d |-> 4]

EndpointBox(seg) ==
    LET s == seg.p[1]
        e == seg.p[Len(seg.p)]
    IN  [x0 |-> Min(s.x, e.x), y0 |-> Min(s.y, e.y),
         x1 |-> Max(s.x, e.x), y1 |-> Max(s.y, e.y)]

MonotoneOverrides(c, box) ==
    IsMonotone(c) =>
        /\ box = EndpointBox(c.seg)
        /\ extrema_ranges(c) = <<[lo |-> [n |-> 0, d |-> 1], hi |-> [n |-> 1, d |-> 1]]>>
        /\ extrema(c) = <<>>
        /\ eval(c, Half) = seg_eval(c.seg, Half)
        /\ start(c) = c.seg.p[1]
        /\ end(c) = c.seg.p[Len(c.seg.p)]
        /\ subsegment(c, Quarter, Half) =
              [kind |-> "Monotone", seg |-> seg_subsegment(c.seg, Quarter, Half)]

\* C9: for every wrapped curve, monotone or not, the bounding box is the
\* rectangle spanned by start and end, extrema_ranges is the single range
\* 0..1, extrema is empty, eval, start and end are those of the wrapped
\* curve, and subdivide and subsegment return the wrapped results: the
\* endpoint box is the one used at every level of the intersection search.
C9_MonotoneOverrides ==
    /\ \A f \in Frames :
          /\ MonotoneOverrides(f.a, f.ba)
          /\ MonotoneOverrides(f.b, f.bb)
          /\ IsMonotone(f.a) =>
                /\ f.a1 = [kind |-> "Monotone", seg |-> seg_subdivide(f.a.seg)[1]]
                /\ f.a2 = [kind |-> "Monotone", seg |-> seg_subdivide(f.a.seg)[2]]
          /\ IsMonotone(f.b) =>
                /\ f.b1 = [kind |-> "Monotone", seg |-> seg_subdivide(f.b.seg)[1]]
                /\ f.b2 = [kind |-> "Monotone", seg |-> seg_subdivide(f.b.seg)[2]]
    /\ last.how # "none" =>
          /\ MonotoneOverrides(last.a, last.ba)
          /\ MonotoneOverrides(last.b, last.bb)

\* Below the top level, a wrapped curve that is not monotone: its endpoint
\* box is not the box of the segment.
C9_Witness ==
    \E i \in 2..Len(stack) :
        /\ IsMonotone(stack[i].a)
        /\ stack[i].ba # seg_bounding_box(stack[i].a.seg)

\* What the sequential code returns for the curves of a call.
Sequential(x, y) == find_intersections_bbox(x, y, accuracy, capacity, 1)

\* C7: the four sub-calls are independent: the result of every sub-call,
\* in whatever order and interleaving the sub-calls run, is the one the
\* sequential code computes from its own two curves and the accuracy, and
\* merging the four results in the order aa, ab, ba, bb gives the output of
\* the sequential implementation.
C7_ForkJoinEqualsSequential ==
    \A p \in DOMAIN tasks :
        Ended(tasks[p]) =>
            LET r == Sequential(tasks[p].a, tasks[p].b)
            IN  /\ tasks[p].st = r.st
                /\ tasks[p].result = r.result

\* The top-level call has joined sub-results that hold several candidates of
\* which the merge keeps only some.
C7_Witness ==
    /\ DOMAIN tasks = {<<>>}
    /\ tasks[<<>>].st = "done"
    /\ capacity >= 1
    /\ tasks[<<>>].result # <<>>
    /\ join_reversed([k \in 1..4 |->
            Sequential(Child([a1 |-> subdivide(a)[1], a2 |-> subdivide(a)[2],
                              b1 |-> subdivide(b)[1], b2 |-> subdivide(b)[2]], k)[1],
                       Child([a1 |-> subdivide(a)[1], a2 |-> subdivide(a)[2],
                              b1 |-> subdivide(b)[1], b2 |-> subdivide(b)[2]], k)[2]).result],
            2 * accuracy, capacity) # tasks[<<>>].result

\* The sequential machine of Spec returns what the function computes.
SequentialAgrees ==
    (ViaBbox /\ status \in {"done", "panic", "overflow"}) =>
        LET r == Sequential(a, b)
        IN  /\ status = r.st
            /\ (Done => ret = r.result)

Solving == Solved(curve, method)

\* The values of a coordinate at the ends and at its interior extrema.
RangeValues(cs) ==
    {poly_at(coefs(cs), t) :
        t \in {RatInt(0), RatInt(1)}
              \cup {extrema_v(cs)[i] : i \in {j \in 1..Len(extrema_v(cs)) :
                                               InUnit(extrema_v(cs)[j])}}}

\* v is strictly outside the range of the coordinate over the curve.
OutOfRange(cs, v) ==
    \/ \A r \in RangeValues(cs) : RatLess(v, r)
    \/ \A r \in RangeValues(cs) : RatLess(r, v)

RatSub(s, t) == RatAdd(s, RatMul(RatInt(-1), t))

\* s exceeds 4 * EPSILON * Variation(cs).
Beyond(s, cs) == s.n > (4 * Variation(cs) * s.d) \div EPSILON.d

\* v is outside the range by more than 4 * EPSILON times the total variation
\* of the control values.
FarOutOfRange(cs, v) ==
    \/ \A r \in RangeValues(cs) : Beyond(RatSub(r, v), cs)
    \/ \A r \in RangeValues(cs) : Beyond(RatSub(v, r), cs)

SolverRoots ==
    LET c == Coefs(Solving, value)
    IN  CASE Len(Solving) = 2 -> solve_linear(c[1], c[2])
          [] Len(Solving) = 3 -> solve_quadratic(c[1], c[2], c[3])
          [] Len(Solving) = 4 -> solve_cubic(c[1], c[2], c[3], c[4])

\* k/d <= 1e-6 for d > 0; a k above 2147 exceeds 1e-6 times any d below 2^31.
AtMostEpsilon(k, d) == k <= 0 \/ (k <= 2147 /\ k * EPSILON.d <= d * EPSILON.n)

\* -1e-6 <= t <= 1 + 1e-6.
InDomain(t) == AtMostEpsilon(-t.n, t.d) /\ AtMostEpsilon(t.n - t.d, t.d)

\* The roots of a sequence that lie in the domain, in order, duplicates kept.
RECURSIVE KeptRoots(_)
KeptRoots(roots) ==
    IF roots = <<>> THEN <<>>
    ELSE (IF InDomain(Head(roots)) THEN <<Head(roots)>> ELSE <<>>)
         \o KeptRoots(Tail(roots))

Count(seq, x) == Cardinality({i \in 1..Len(seq) : seq[i] = x})

TSolved == phase = "done" /\ method \in {"solve_t_for_x", "solve_t_for_y"}

C11_DuplicateKept ==
    /\ TSolved
    /\ Len(out) = 2 /\ out[1] = out[2]

C11_RootDropped ==
    /\ TSolved
    /\ Len(out) >= 1 /\ Len(SolverRoots) > Len(out)

\* The parameters in (0, 1) at which the solved coordinate has the value.
Preimages ==
    {t \in ProbeTs : /\ t.n > 0 /\ t.n < t.d
                     /\ poly_at(coefs(Solving), t) = value}

\* |s - t| <= 1e-3.
Within(s, t) == LET e == RatSub(s, t) IN Abs(e.n) * 1000 <= e.d

\* What the method is to find for the parameter t.
Sought(t) ==
    CASE method \in {"solve_t_for_x", "solve_t_for_y"} -> t
      [] method = "solve_y_for_x" -> eval_exact(curve, t).y
      [] method = "solve_x_for_y" -> eval_exact(curve, t).x

RoundTrip == \A t \in Preimages : \E i \in 1..Len(out) : Within(out[i], Sought(t))

\* The paired solves hold the curve's other coordinate at the parameters of
\* the t solve, in the same order.
PairedFollowT ==
    /\ method = "solve_y_for_x" =>
          LET ts == solve_t_for_x(curve, value)
          IN  /\ Len(out) = Len(ts)
              /\ \A i \in 1..Len(ts) : out[i] = poly_at(coefs(ys(curve)), ts[i])
    /\ method = "solve_x_for_y" =>
          LET ts == solve_t_for_y(curve, value)
          IN  /\ Len(out) = Len(ts)
              /\ \A i \in 1..Len(ts) : out[i] = poly_at(coefs(xs(curve)), ts[i])

\* The solved coordinate is not the same at all control points.
Varies(cs) == \E i \in 1..Len(cs) : cs[i] # cs[1]

Transformed(p) ==
    IF xform.kind = "Affine" THEN affine_mul_pt(xform, p) ELSE ts_mul_pt(xform, p)

\* The control points of the variants.
Arity(kind) == CASE kind = "Line" -> 2 [] kind = "Quad" -> 3 [] kind = "Cubic" -> 4

\* r is the segment s with its variant kept and every control point
\* transformed.
SameVariantTransformed(s, r) ==
    /\ r.kind = s.kind
    /\ Len(r.p) = Arity(s.kind)
    /\ \A i \in 1..Len(s.p) : r.p[i] = Transformed(s.p[i])

\* C13: apply_affine and apply_translate_scale return a segment of the
\* variant of their input whose control points are the transformed control
\* points of the input, and TranslateScale * Monotone returns a Monotone
\* wrapping the transformed segment.
C13_TransformKeepsVariant ==
    image # <<>> =>
        IF image.by = "mul"
        THEN /\ IsMonotone(image.seg)
             /\ SameVariantTransformed(pseg.seg, image.seg.seg)
        ELSE SameVariantTransformed(pseg, image.seg)

\* A wrapped quadratic is scaled and translated and comes back wrapped, a
\* quadratic still, at other points.
C13_Witness ==
    /\ image # <<>>
    /\ image.by = "mul"
    /\ image.seg.seg.kind = "Quad"
    /\ image.seg # pseg

\* A cubic is turned by an affine map and stays a cubic.
C13_CubicTurned ==
    /\ image # <<>>
    /\ image.by = "apply_affine"
    /\ pseg.kind = "Cubic"
    /\ image.seg # pseg

\* The contract of the accuracy or of Monotone is broken by the top-level
\* call: the accuracy is not positive, or a wrapped curve turns in x or y.
Turns(c) ==
    IsMonotone(c) /\ seg_extrema(c.seg) # <<>>

ContractViolated == accuracy <= 0 \/ Turns(a) \/ Turns(b)

\* The call entered has the curves of its caller: the recursion repeats.
Repeats ==
    /\ status = "call"
    /\ stack # <<>>
    /\ arg = <<stack[Len(stack)].a, stack[Len(stack)].b>>

\* C14: with accuracy <= 0, or a non-monotone curve wrapped in Monotone,
\* the call does not panic and does not recurse without bound.
C14_ContractViolationNoCrash ==
    ContractViolated => /\ status \notin {"panic", "overflow"}
                        /\ ~Repeats

\* With accuracy <= 0 and room in the output the recursion repeats a call.
C14_NonPositiveRepeats ==
    accuracy <= 0 /\ capacity >= 1 /\ ~Turns(a) /\ ~Turns(b) /\ Repeats

\* What a call on boxes ba and bb did (how), against the base-case rule: the
\* first box that is below the accuracy in both dimensions gives the one
\* point returned, its center; with neither the call subdivides.
ByBaseCaseRule(c) ==
    (c.how # "none" /\ bboxes_overlap(c.ba, c.bb)) =>
        IF Small(c.ba)
        THEN c.how = "base_a" /\ c.result = <<center(c.ba)>>
        ELSE IF Small(c.bb)
             THEN c.how = "base_b" /\ c.result = <<center(c.bb)>>
             ELSE c.how = "merge" /\ Len(c.subs) = 4

\* The calls that subdivided had no box below the accuracy in both
\* dimensions, and hold both halves of both curves.
SubdividedBoth ==
    \A f \in Frames :
        /\ ~Small(f.ba) /\ ~Small(f.bb)
        /\ <<f.a1, f.a2>> = subdivide(f.a)
        /\ <<f.b1, f.b2>> = subdivide(f.b)

C17_OneDimensionSubdivides ==
    /\ capacity >= 1
    /\ \E f \in Frames :
          \/ width(f.ba) < accuracy /\ height(f.ba) >= accuracy
          \/ height(f.bb) < accuracy /\ width(f.bb) >= accuracy

\* The second base case was taken.
C17_SecondBox ==
    /\ capacity >= 1
    /\ last.how = "base_b"
    /\ center(last.ba) # center(last.bb)
    /\ last.result = <<center(last.bb)>>

\* The sub-curves of c by up to d midpoint subdivisions, c included.
RECURSIVE SubCurves(_, _)
SubCurves(c, d) ==
    IF d = 0 THEN {c}
    ELSE {c} \cup SubCurves(subdivide(c)[1], d - 1)
             \cup SubCurves(subdivide(c)[2], d - 1)

\* The boxes of the sub-curves of c, and those below the accuracy.
SubBoxes(c) == {bounding_box(x) : x \in SubCurves(c, MaxDepth)}

\* p is the center of a box of xs that is below the accuracy in both
\* dimensions and strictly overlaps a box of ys.
CenterOfSmall(p, bxs, bys) ==
    \E bx \in bxs : /\ Small(bx)
                    /\ p = center(bx)
                    /\ \E by \in bys : bboxes_overlap(bx, by)

\* The box of every sub-curve of c lies in the box of the curve it is a
\* half of.
Inside(r, q) == q.x0 <= r.x0 /\ r.x1 <= q.x1 /\ q.y0 <= r.y0 /\ r.y1 <= q.y1

Nested(c) ==
    \A x \in SubCurves(c, MaxDepth - 1) :
        \A k \in 1..2 : Inside(bounding_box(subdivide(x)[k]), bounding_box(x))

\* p is within d of the rectangle r on each axis.
WithinOfBox(p, r, d) ==
    /\ r.x0 - d <= p.x /\ p.x <= r.x1 + d
    /\ r.y0 - d <= p.y /\ p.y <= r.y1 + d

\* C18: every point find_intersections_bbox returns, at any level, is the
\* center of the box of a sub-curve of a or of b that is below the accuracy
\* in both dimensions and strictly overlaps the box of a sub-curve of the
\* other input; with sub-curve boxes inside their parents' boxes it lies
\* within the accuracy of the boxes of both inputs on each axis.
C18_PointsAreSmallBoxCenters ==
    (ViaBbox /\ status \in {"return", "done"} /\ ret # <<>>) =>
        LET as == SubBoxes(a)
            bs == SubBoxes(b)
        IN  /\ \A i \in 1..Len(ret) :
                  CenterOfSmall(ret[i], as, bs) \/ CenterOfSmall(ret[i], bs, as)
            /\ (Nested(a) /\ Nested(b)) =>
                  \A i \in 1..Len(ret) :
                      /\ WithinOfBox(ret[i], bounding_box(a), accuracy)
                      /\ WithinOfBox(ret[i], bounding_box(b), accuracy)

\* A call returned two points, found in sub-curves; the boxes nest.
C18_Witness ==
    /\ ViaBbox /\ Done
    /\ Len(ret) >= 2
    /\ calls > 1
    /\ Nested(a) /\ Nested(b)

\* A point outside the box of one input was returned.
C18_OutsideOne ==
    /\ ViaBbox /\ Done
    /\ Nested(a) /\ Nested(b)
    /\ \E i \in 1..Len(ret) :
          ~WithinOfBox(ret[i], bounding_box(a), 0) \/ ~WithinOfBox(ret[i], bounding_box(b), 0)

\* The boxes of a wrapped curve that turns do not nest.
C18_NotNested ==
    /\ ViaBbox /\ Done
    /\ ~Nested(a)

C15_WeakReplaced ==
    /\ op.name = "apply_role"
    /\ op.was.role = Some("Paragraph")
    /\ frames["self"].role = Some("Heading")

\* The elements of a frame as observed, each moved by the offset.
MovedBy(elements, offset) ==
    [i \in 1..Len(elements) |-> <<PtAdd(elements[i][1], offset), elements[i][2]>>]

C16_ImplicitBaselineStays ==
    /\ op.name = "translate"
    /\ op.was.baseline = None
    /\ op.arg.y # 0
    /\ op.was.elements # <<>>
    /\ baseline(frames["self"]) = baseline(op.was)

\* C19: a call on one frame leaves what is observed through every other
\* frame held (a clone taken before, a frame sharing the list after an
\* inline that reused it) unchanged.
C19_ClonesIsolated ==
    [][\A k \in {"other", "clone"} :
          (frames[k] # None /\ frames'[k] # None) =>
              Observed(heap', frames'[k]) = Observed(heap, frames[k])]_vars

\* "self" took over the list of a frame inlined into it, which a clone of
\* that frame still holds, and then pushed an element: the clone still
\* shows the list as it was.
C19_Witness ==
    /\ op.name = "push"
    /\ op.shared >= 2
    /\ frames["clone"] # None
    /\ frames["other"] = None
    /\ frames["clone"].role = Some("Paragraph")
    /\ Observed(heap, frames["clone"]).elements = op.was.elements
    /\ Observed(heap, frames["self"]).elements # op.was.elements

\* A shared list was cleared, translated or wrapped in a group.
C19_SharedChanged ==
    /\ op.name \in {"clear", "translate", "clip"}
    /\ op.shared >= 2
    /\ frames["clone"] # None
    /\ Observed(heap, frames["self"]).elements # op.was.elements

====
